---- MODULE Spec2Model ----
(***************************************************************************)
(* Answer comparison service (src/server.js, src/api/compare.ts).          *)
(*                                                                         *)
(* Two parts:                                                              *)
(*  - jaroWinkler, as the operator JaroWinkler and, step by step, as the   *)
(*    machine of SpecJW (one action per loop iteration / return);          *)
(*  - the compare handler, getExtractor and the start-up preload, as the   *)
(*    machine of Spec (one request, rich inputs) and SpecConcurrent (two   *)
(*    requests). One action is one synchronous run of JavaScript between   *)
(*    two awaits.                                                          *)
(*                                                                         *)
(* The server is that of src/server.js; the handler of src/api/compare.ts   *)
(* runs the same statements behind a gate on the request method and has no *)
(* preload, which SpecConcurrent's two racing requests stand for.          *)
(*                                                                         *)
(* Numbers are exact rationals [n, d] in lowest terms with d > 0; the      *)
(* rounding of IEEE doubles is not modelled. Strings are sequences of      *)
(* one-character strings; indices i, j, k are 0-based as in the source.    *)
(***************************************************************************)
EXTENDS Integers, Sequences, FiniteSets

\* ---------------------------------------------------------------- bounds

\* longest string handed to jaroWinkler in SpecJW
MaxLen == 5
\* longest userAnswer / correctAnswer of a request
MaxAnsLen == 2

\* characters of the strings handed to jaroWinkler in SpecJW
Chars == {"a", "b"}
\* characters of a request's answers: a letter in both cases, two kinds of whitespace
AnsChars == {"a", "A", " ", "\t"}

RECURSIVE StringsOf(_, _)
StringsOf(cs, len) ==
  IF len = 0 THEN {<<>>}
  ELSE LET shorter == StringsOf(cs, len - 1)
       IN  shorter \cup {Append(s, c) : s \in {t \in shorter : Len(t) = len - 1}, c \in cs}

\* ---------------------------------------------------------------- numbers

Max(a, b) == IF a >= b THEN a ELSE b
Min(a, b) == IF a <= b THEN a ELSE b
Abs(a) == IF a < 0 THEN -a ELSE a

RECURSIVE GCD(_, _)
GCD(a, b) == IF b = 0 THEN a ELSE GCD(b, a % b)

\* the number n/d (d # 0), in lowest terms with a positive denominator
Q(n, d) ==
  LET g == GCD(Abs(n), Abs(d))
      s == IF d < 0 THEN -1 ELSE 1
  IN  [n |-> (s * n) \div g, d |-> (s * d) \div g]

RAdd(x, y) == Q(x.n * y.d + y.n * x.d, x.d * y.d)
RSub(x, y) == Q(x.n * y.d - y.n * x.d, x.d * y.d)
RMul(x, y) == Q(x.n * y.n, x.d * y.d)
RDiv(x, y) == Q(x.n * y.d, x.d * y.n)
RLe(x, y) == x.n * y.d <= y.n * x.d
RGe(x, y) == RLe(y, x)

Zero == Q(0, 1)
One == Q(1, 1)
\* no number: the result of a call that has not returned, or never returns
NoResult == [n |-> 0, d |-> 0]
Diverged == [n |-> 1, d |-> 0]

\* ---------------------------------------------------------------- jaroWinkler

\* s[i], 0-based
At(s, i) == s[i + 1]

AllFalse(len) == [x \in 1..len |-> FALSE]

\* a faulty variant: the window is taken from the first string alone
MatchWindowOfFirst(m, n) == (m \div 2) - 1

MatchWindow(m, n) == (Max(m, n) \div 2) - 1

ScanStart(i, w) == Max(0, i - w)

ScanEnd(i, w, n) == Min(i + w + 1, n)

\* the inner for loop: the first j of [start, end) not yet claimed with s1[i] = s2[j], -1 if none
FirstFit(s1, s2, claimed2, i, w) ==
  LET cand == {j \in ScanStart(i, w)..(ScanEnd(i, w, Len(s2)) - 1) :
                 ~At(claimed2, j) /\ At(s1, i) = At(s2, j)}
  IN  IF cand = {} THEN -1 ELSE CHOOSE j \in cand : \A j2 \in cand : j <= j2

\* a faulty variant: the position of s2 is not marked claimed
MatchIterNoClaim(s1, s2, st, i, w) ==
  LET j == FirstFit(s1, s2, st.s2Matches, i, w)
  IN  IF j = -1 THEN st
      ELSE [s1Matches |-> [st.s1Matches EXCEPT ![i + 1] = TRUE],
            s2Matches |-> st.s2Matches,
            matches   |-> st.matches + 1]

\* one iteration of the matching loop on the state st = [s1Matches, s2Matches, matches]
MatchIter(s1, s2, st, i, w) ==
  LET j == FirstFit(s1, s2, st.s2Matches, i, w)
  IN  IF j = -1 THEN st
      ELSE [s1Matches |-> [st.s1Matches EXCEPT ![i + 1] = TRUE],
            s2Matches |-> [st.s2Matches EXCEPT ![j + 1] = TRUE],
            matches   |-> st.matches + 1]

RECURSIVE MatchLoop(_, _, _, _, _)
MatchLoop(s1, s2, st, i, w) ==
  IF i >= Len(s1) THEN st ELSE MatchLoop(s1, s2, MatchIter(s1, s2, st, i, w), i + 1, w)

\* s2Matches[k] as JavaScript reads it: undefined (falsy) past the end of the array
Claimed2(claimed2, k) == k < Len(claimed2) /\ At(claimed2, k)

\* the transposition pass from (i, k, t): the count, or -1 when `while (!s2Matches[k]) k++`
\* runs past the end of s2Matches (where it never stops)
RECURSIVE TransLoop(_, _, _, _, _, _)
TransLoop(s1, s2, st, i, k, t) ==
  IF i >= Len(s1) THEN t
  ELSE IF ~At(st.s1Matches, i) THEN TransLoop(s1, s2, st, i + 1, k, t)
  ELSE LET ks == {x \in k..(Len(s2) - 1) : Claimed2(st.s2Matches, x)}
       IN  IF ks = {} THEN -1
           ELSE LET k2 == CHOOSE x \in ks : \A y \in ks : x <= y
                IN  TransLoop(s1, s2, st, i + 1, k2 + 1,
                              IF At(s1, i) # At(s2, k2) THEN t + 1 ELSE t)

Jaro(m, n, matches, transpositions) ==
  RDiv(RAdd(RAdd(Q(matches, m), Q(matches, n)),
            RDiv(RSub(Q(matches, 1), Q(transpositions, 2)), Q(matches, 1))),
       Q(3, 1))

RECURSIVE PrefixLoop(_, _, _)
PrefixLoop(s1, s2, i) ==
  IF i < Min(Min(Len(s1), Len(s2)), 4) /\ At(s1, i) = At(s2, i)
  THEN PrefixLoop(s1, s2, i + 1) ELSE i

\* a faulty variant: the prefix bonus is not scaled by (1 - jaro)
WinklerUnscaled(jaro, prefix) == RAdd(jaro, RMul(Q(prefix, 1), Q(1, 10)))

Winkler(jaro, prefix) == RAdd(jaro, RMul(RMul(Q(prefix, 1), Q(1, 10)), RSub(One, jaro)))

\* jaroWinkler(s1, s2) with its match and transposition counts; score Diverged when the
\* transposition pass does not return
JaroWinkler(s1, s2) ==
  LET m == Len(s1)
      n == Len(s2)
  IN  IF m = 0 /\ n = 0 THEN [score |-> One, matches |-> 0, transpositions |-> 0]
      ELSE IF m = 0 \/ n = 0 THEN [score |-> Zero, matches |-> 0, transpositions |-> 0]
      ELSE LET st == MatchLoop(s1, s2, [s1Matches |-> AllFalse(m), s2Matches |-> AllFalse(n),
                                        matches |-> 0], 0, MatchWindow(m, n))
           IN  IF st.matches = 0 THEN [score |-> Zero, matches |-> 0, transpositions |-> 0]
               ELSE LET t == TransLoop(s1, s2, st, 0, 0, 0)
                    IN  IF t = -1
                        THEN [score |-> Diverged, matches |-> st.matches, transpositions |-> -1]
                        ELSE [score |-> Winkler(Jaro(m, n, st.matches, t), PrefixLoop(s1, s2, 0)),
                              matches |-> st.matches, transpositions |-> t]

\* ---------------------------------------------------------------- normalize, toLowerCase

\* the characters \s matches
IsSpace(c) == c \in {" ", "\t"}

RECURSIVE TrimStart(_)
TrimStart(s) == IF s # <<>> /\ IsSpace(Head(s)) THEN TrimStart(Tail(s)) ELSE s

RECURSIVE TrimEnd(_)
TrimEnd(s) ==
  IF s # <<>> /\ IsSpace(s[Len(s)]) THEN TrimEnd(SubSeq(s, 1, Len(s) - 1)) ELSE s

\* text.trim()
Trim(s) == TrimEnd(TrimStart(s))

\* s.replace(/\s+/g, ' '): every maximal run of whitespace becomes one space
RECURSIVE ReplaceRuns(_)
ReplaceRuns(s) ==
  IF s = <<>> THEN <<>>
  ELSE IF IsSpace(Head(s)) THEN <<" ">> \o ReplaceRuns(TrimStart(s))
  ELSE <<Head(s)>> \o ReplaceRuns(Tail(s))

Normalize(text) == ReplaceRuns(Trim(text))

LowerChar(c) == IF c = "A" THEN "a" ELSE IF c = "B" THEN "b" ELSE c

RECURSIVE ToLowerCase(_)
ToLowerCase(s) == IF s = <<>> THEN <<>> ELSE <<LowerChar(Head(s))>> \o ToLowerCase(Tail(s))

\* ---------------------------------------------------------------- the compare handler's values

\* a field of req.body: a string, or not there
Absent == [present |-> FALSE, text |-> <<>>]
Text(s) == [present |-> TRUE, text |-> s]

\* body.threshold: a number, or not there
NoThreshold == [given |-> FALSE, value |-> NoResult]
Threshold(q) == [given |-> TRUE, value |-> q]

\* `threshold = 0.75` in the destructuring
DefaultThreshold == Q(3, 4)
EffectiveThreshold(th) == IF th.given THEN th.value ELSE DefaultThreshold

\* !userAnswer: undefined and "" are falsy
Falsy(a) == ~a.present \/ a.text = <<>>

MissingInput(ua, ca) == Falsy(ua) \/ Falsy(ca)

\* a faulty variant: the comparison is case-sensitive
ExactMatchCaseSensitive(normalizedUser, normalizedCorrect) == normalizedUser = normalizedCorrect

ExactMatch(normalizedUser, normalizedCorrect) ==
  ToLowerCase(normalizedUser) = ToLowerCase(normalizedCorrect)

\* a faulty variant: the semantic score is not weighted
CombineUnweighted(semanticScore, jaroScore) == RAdd(semanticScore, RMul(jaroScore, Q(2, 10)))

\* semanticScore * 0.8 + jaroScore * 0.2
Combine(semanticScore, jaroScore) ==
  RAdd(RMul(semanticScore, Q(8, 10)), RMul(jaroScore, Q(2, 10)))

\* a faulty variant: the comparison is strict
IsCorrectStrict(combinedScore, threshold) ==
  RGe(combinedScore, threshold) /\ combinedScore # threshold

IsCorrect(combinedScore, threshold) == RGe(combinedScore, threshold)

BadRequest == [status |-> 400, error |-> "Both userAnswer and correctAnswer are required"]

ExactResponse ==
  [status |-> 200, isCorrect |-> TRUE, confidence |-> One,
   scores |-> [exact |-> One, semantic |-> One, jaroWinkler |-> One, combined |-> One]]

Decision(semanticScore, jaroScore, threshold) ==
  LET combinedScore == Combine(semanticScore, jaroScore)
  IN  [status |-> 200, isCorrect |-> IsCorrect(combinedScore, threshold),
       confidence |-> combinedScore,
       scores |-> [semantic |-> semanticScore, jaroWinkler |-> jaroScore,
                   combined |-> combinedScore],
       threshold |-> threshold]

\* a faulty variant: the error's message is left out
InternalErrorNoMessage(message) == [status |-> 500, error |-> "Internal server error"]

\* the catch block
InternalError(message) ==
  [status |-> 500, error |-> "Internal server error", message |-> message]

\* !extractor
MustLoad(cached) == cached = 0

\* ---------------------------------------------------------------- inputs

\* the requests of a run, and the callers of getExtractor
Reqs == {"r1", "r2"}
Callers == Reqs \cup {"preload"}

\* an answer that shares no character with the others
Unrelated == <<"b">>

\* the answers a request may carry: none, every string over AnsChars up to MaxAnsLen, Unrelated
Answers == {Absent} \cup {Text(s) : s \in StringsOf(AnsChars, MaxAnsLen) \cup {Unrelated}}

\* the thresholds a request may carry: none, 0 or 1
Thresholds == {NoThreshold, Threshold(Zero), Threshold(One)}

\* the cosine similarities the provider may return: -1, -1/2, 0, 1/2, 1
CosValues == {Q(c, 2) : c \in (-2)..2}

\* ---------------------------------------------------------------- state

VARIABLES
  \* one call of jaroWinkler (SpecJW): its arguments, its locals, the place it is at, its result
  s1, s2, pc, i, k, matchWindow, s1Matches, s2Matches, matches, transpositions, result,
  \* the server process
  extractor,      \* the cached model: 0 is null, else the pipeline() call that produced it
  pipelineCalls,  \* how many times pipeline() has been invoked
  preload,        \* the listen callback: "init", "loading", "ready", "failed"
  \* per request
  rpc,            \* "idle", "loading", "gotExtractor", "embedding", "done"
  body,           \* req.body as received
  normalized,     \* [user, correct]: normalizedUser, normalizedCorrect
  load,           \* the pipeline() call the request's getExtractor awaits (0: none)
  model,          \* what `await getExtractor()` gave the handler (0: nothing yet)
  getCalls,       \* calls of getExtractor by the request
  modelCalls,     \* calls of the model by the request
  thrown,         \* message of the error the provider threw at the request ("" : none)
  responses       \* the responses sent, in order

jwVars == <<s1, s2, pc, i, k, matchWindow, s1Matches, s2Matches, matches, transpositions, result>>

srvVars == <<extractor, pipelineCalls, preload, rpc, body, normalized, load, model, getCalls,
             modelCalls, thrown, responses>>

vars == <<jwVars, srvVars>>

\* ---------------------------------------------------------------- SpecJW: one call of jaroWinkler

\* the server before the listen callback has run, no request received
InitServer ==
  /\ extractor = 0
  /\ pipelineCalls = 0
  /\ preload = "init"
  /\ rpc = [r \in Reqs |-> "idle"]
  /\ body = [r \in Reqs |-> [userAnswer |-> Absent, correctAnswer |-> Absent,
                              threshold |-> NoThreshold]]
  /\ normalized = [r \in Reqs |-> [user |-> <<>>, correct |-> <<>>]]
  /\ load = [c \in Callers |-> 0]
  /\ model = [c \in Callers |-> 0]
  /\ getCalls = [r \in Reqs |-> 0]
  /\ modelCalls = [r \in Reqs |-> 0]
  /\ thrown = [r \in Reqs |-> ""]
  /\ responses = [r \in Reqs |-> <<>>]

InitJW ==
  /\ InitServer
  /\ s1 \in StringsOf(Chars, MaxLen)
  /\ s2 \in StringsOf(Chars, MaxLen)
  /\ pc = "entry"
  /\ i = 0
  /\ k = 0
  /\ matchWindow = 0
  /\ s1Matches = <<>>
  /\ s2Matches = <<>>
  /\ matches = 0
  /\ transpositions = 0
  /\ result = NoResult

\* lines 31-42: the empty-string returns, else the set-up of the matching loop
Entry ==
  /\ pc = "entry"
  /\ IF Len(s1) = 0 /\ Len(s2) = 0
     THEN /\ pc' = "done"
          /\ result' = One
          /\ UNCHANGED <<matchWindow, s1Matches, s2Matches>>
     ELSE IF Len(s1) = 0 \/ Len(s2) = 0
     THEN /\ pc' = "done"
          /\ result' = Zero
          /\ UNCHANGED <<matchWindow, s1Matches, s2Matches>>
     ELSE /\ pc' = "match"
          /\ matchWindow' = MatchWindow(Len(s1), Len(s2))
          /\ s1Matches' = AllFalse(Len(s1))
          /\ s2Matches' = AllFalse(Len(s2))
          /\ UNCHANGED result
  /\ UNCHANGED <<s1, s2, i, k, matches, transpositions, srvVars>>

\* lines 44-55: one iteration of the matching loop
MatchStep ==
  /\ pc = "match"
  /\ i < Len(s1)
  /\ LET st == MatchIter(s1, s2, [s1Matches |-> s1Matches, s2Matches |-> s2Matches,
                                  matches |-> matches], i, matchWindow)
     IN  /\ s1Matches' = st.s1Matches
         /\ s2Matches' = st.s2Matches
         /\ matches' = st.matches
  /\ i' = i + 1
  /\ UNCHANGED <<s1, s2, pc, k, matchWindow, transpositions, result, srvVars>>

\* lines 57-59: the matching loop has ended
MatchEnd ==
  /\ pc = "match"
  /\ i >= Len(s1)
  /\ IF matches = 0
     THEN pc' = "done" /\ result' = Zero
     ELSE pc' = "trans" /\ UNCHANGED result
  /\ i' = 0
  /\ k' = 0
  /\ UNCHANGED <<s1, s2, matchWindow, s1Matches, s2Matches, matches, transpositions, srvVars>>

\* line 61: an unmatched position of s1 is skipped
TransContinue ==
  /\ pc = "trans"
  /\ i < Len(s1)
  /\ ~At(s1Matches, i)
  /\ i' = i + 1
  /\ UNCHANGED <<s1, s2, pc, k, matchWindow, s1Matches, s2Matches, matches, transpositions, result, srvVars>>

\* line 62: one iteration of the while loop (k is followed one place past the end, no further)
TransWhile ==
  /\ pc = "trans"
  /\ i < Len(s1)
  /\ At(s1Matches, i)
  /\ ~Claimed2(s2Matches, k)
  /\ k < Len(s2)
  /\ k' = k + 1
  /\ UNCHANGED <<s1, s2, pc, i, matchWindow, s1Matches, s2Matches, matches, transpositions, result, srvVars>>

\* lines 63-64: the characters of the next matched pair are compared
TransCompare ==
  /\ pc = "trans"
  /\ i < Len(s1)
  /\ At(s1Matches, i)
  /\ Claimed2(s2Matches, k)
  /\ transpositions' = IF At(s1, i) # At(s2, k) THEN transpositions + 1 ELSE transpositions
  /\ k' = k + 1
  /\ i' = i + 1
  /\ UNCHANGED <<s1, s2, pc, matchWindow, s1Matches, s2Matches, matches, result, srvVars>>

\* lines 67-75: the score
Return ==
  /\ pc = "trans"
  /\ i >= Len(s1)
  /\ pc' = "done"
  /\ result' = Winkler(Jaro(Len(s1), Len(s2), matches, transpositions), PrefixLoop(s1, s2, 0))
  /\ UNCHANGED <<s1, s2, i, k, matchWindow, s1Matches, s2Matches, matches, transpositions, srvVars>>

NextJW ==
  \/ Entry
  \/ MatchStep
  \/ MatchEnd
  \/ TransContinue
  \/ TransWhile
  \/ TransCompare
  \/ Return

SpecJW == InitJW /\ [][NextJW]_vars

\* ---------------------------------------------------------------- properties of jaroWinkler

\* C1. Identity: jaroWinkler(s, s) returns exactly 1.0 for every non-empty string s, of
\* every length from 1 on.
IdentityEveryLength ==
  (pc = "done" /\ s1 = s2 /\ Len(s1) >= 1) => result = One

\* C2. Symmetry: the call on (s1, s2) returns the score, the match count and the
\* transposition count that jaroWinkler gives for (s2, s1).
Symmetry ==
  pc = "done" =>
    LET swapped == JaroWinkler(s2, s1)
    IN  /\ result = swapped.score
        /\ matches = swapped.matches
        /\ transpositions = swapped.transpositions

\* a call on strings of unequal lengths has returned with a transposition counted
SymmetryWitness ==
  /\ pc = "done"
  /\ Len(s1) # Len(s2)
  /\ transpositions > 0
  /\ result # Zero

\* C3. Bounds: every returned score is a number in [0, 1]; it is 1 for two empty strings
\* and 0 for an empty and a non-empty string, in either order.
Bounds ==
  pc = "done" =>
    /\ result.d > 0
    /\ 0 <= result.n
    /\ result.n <= result.d
    /\ (Len(s1) = 0 /\ Len(s2) = 0) => (result.n = 1 /\ result.d = 1)
    /\ ((Len(s1) = 0) # (Len(s2) = 0)) => result.n = 0

\* a call on two different non-empty strings with a common prefix has returned a score
\* strictly between 0 and 1
BoundsWitness ==
  /\ pc = "done"
  /\ Len(s1) > 0
  /\ Len(s2) > 0
  /\ s1[1] = s2[1]
  /\ 0 < result.n
  /\ result.n < result.d

\* the number of TRUE entries of a flag array
Count(flags) == Cardinality({x \in 1..Len(flags) : flags[x]})

\* how far a call has come: it grows with every step and is bounded
Rank ==
  LET stage == CASE pc = "entry" -> 0 [] pc = "match" -> 1 [] pc = "trans" -> 2 [] OTHER -> 3
  IN  stage * (Len(s1) + Len(s2) + 1) + i + k

\* C10. The matching and the transposition walk are well-formed: the claimed positions of
\* s1, those of s2 and matches are equal in number, at most min(m, n); every read of
\* s2Matches[k] and s2[k] in the transposition pass has k < n, so the while loop is never
\* left scanning past the end; and every step brings the call nearer to its return (i and k
\* stay within m and n and Rank grows), so the call returns.
WellFormed ==
  /\ [](pc \in {"match", "trans", "done"} =>
         /\ Count(s1Matches) = matches
         /\ Count(s2Matches) = matches
         /\ matches <= Min(Len(s1), Len(s2)))
  /\ []((pc = "trans" /\ i < Len(s1) /\ At(s1Matches, i)) => k < Len(s2))
  /\ [](i <= Len(s1) /\ k <= Len(s2))
  /\ [][Rank' > Rank]_vars

\* the while loop is about to step over an unclaimed position of s2 that follows a claimed one
WellFormedWitness ==
  /\ pc = "trans"
  /\ i < Len(s1)
  /\ At(s1Matches, i)
  /\ k > 0
  /\ ~Claimed2(s2Matches, k)

\* ---------------------------------------------------------------- Spec: the server

\* the frame of jaroWinkler is not shown while the server runs: the handler's call of it is
\* one synchronous run, the operator JaroWinkler
NoCall ==
  /\ s1 = <<>>
  /\ s2 = <<>>
  /\ pc = "none"
  /\ i = 0
  /\ k = 0
  /\ matchWindow = 0
  /\ s1Matches = <<>>
  /\ s2Matches = <<>>
  /\ matches = 0
  /\ transpositions = 0
  /\ result = NoResult

Init == InitServer /\ NoCall

\* getExtractor() called by c, up to its await or its return
GetExtractor(c) ==
  IF MustLoad(extractor)
  THEN /\ pipelineCalls' = pipelineCalls + 1
       /\ load' = [load EXCEPT ![c] = pipelineCalls + 1]
       /\ UNCHANGED model
  ELSE /\ model' = [model EXCEPT ![c] = extractor]
       /\ UNCHANGED <<pipelineCalls, load>>

\* the listen callback: the preload
PreloadStart ==
  /\ preload = "init"
  /\ GetExtractor("preload")
  /\ preload' = IF MustLoad(extractor) THEN "loading" ELSE "ready"
  /\ UNCHANGED <<extractor, rpc, body, normalized, getCalls, modelCalls, thrown, responses, jwVars>>

\* a POST /api/compare, from the destructuring of the body to the first await or response
\* (the listen callback has run by the time a connection is accepted)
Receive(r, ua, ca, th) ==
  /\ preload # "init"
  /\ rpc[r] = "idle"
  /\ body' = [body EXCEPT ![r] = [userAnswer |-> ua, correctAnswer |-> ca, threshold |-> th]]
  /\ IF MissingInput(ua, ca)
     THEN /\ responses' = [responses EXCEPT ![r] = Append(@, BadRequest)]
          /\ rpc' = [rpc EXCEPT ![r] = "done"]
          /\ UNCHANGED <<normalized, getCalls, pipelineCalls, load, model>>
     ELSE LET normalizedUser == Normalize(ua.text)
              normalizedCorrect == Normalize(ca.text)
          IN  /\ normalized' = [normalized EXCEPT ![r] = [user |-> normalizedUser,
                                                         correct |-> normalizedCorrect]]
              /\ IF ExactMatch(normalizedUser, normalizedCorrect)
                 THEN /\ responses' = [responses EXCEPT ![r] = Append(@, ExactResponse)]
                      /\ rpc' = [rpc EXCEPT ![r] = "done"]
                      /\ UNCHANGED <<getCalls, pipelineCalls, load, model>>
                 ELSE /\ getCalls' = [getCalls EXCEPT ![r] = @ + 1]
                      /\ GetExtractor(r)
                      /\ rpc' = [rpc EXCEPT ![r] = IF MustLoad(extractor) THEN "loading"
                                                   ELSE "gotExtractor"]
                      /\ UNCHANGED responses
  /\ UNCHANGED <<extractor, preload, modelCalls, thrown, jwVars>>

\* c's getExtractor is suspended at `await pipeline(...)`
Loading(c) == IF c = "preload" THEN preload = "loading" ELSE rpc[c] = "loading"

\* pipeline() resolves for c: `extractor = ...; return extractor`
PipelineResolve(c) ==
  /\ Loading(c)
  /\ extractor' = load[c]
  /\ model' = [model EXCEPT ![c] = load[c]]
  /\ IF c = "preload"
     THEN preload' = "ready" /\ UNCHANGED rpc
     ELSE rpc' = [rpc EXCEPT ![c] = "gotExtractor"] /\ UNCHANGED preload
  /\ UNCHANGED <<pipelineCalls, body, normalized, load, getCalls, modelCalls, thrown, responses,
                 jwVars>>

\* pipeline() rejects for c: a request's handler catches it, the listen callback does not
PipelineReject(c, message) ==
  /\ Loading(c)
  /\ IF c = "preload"
     THEN /\ preload' = "failed"
          /\ UNCHANGED <<rpc, thrown, responses>>
     ELSE /\ thrown' = [thrown EXCEPT ![c] = message]
          /\ responses' = [responses EXCEPT ![c] = Append(@, InternalError(message))]
          /\ rpc' = [rpc EXCEPT ![c] = "done"]
          /\ UNCHANGED preload
  /\ UNCHANGED <<extractor, pipelineCalls, body, normalized, load, model, getCalls, modelCalls,
                 jwVars>>

\* `await getExtractor()` has given the handler its model: the model is called
CallModel(r) ==
  /\ rpc[r] = "gotExtractor"
  /\ modelCalls' = [modelCalls EXCEPT ![r] = @ + 1]
  /\ rpc' = [rpc EXCEPT ![r] = "embedding"]
  /\ UNCHANGED <<extractor, pipelineCalls, preload, body, normalized, load, model, getCalls,
                 thrown, responses, jwVars>>

\* the model resolves and cos_sim gives similarity: the scores, the decision, the response
EmbedResolve(r, similarity) ==
  /\ rpc[r] = "embedding"
  /\ LET jaroScore == JaroWinkler(ToLowerCase(normalized[r].user),
                                  ToLowerCase(normalized[r].correct)).score
         threshold == EffectiveThreshold(body[r].threshold)
     IN  responses' = [responses EXCEPT ![r] = Append(@, Decision(similarity, jaroScore, threshold))]
  /\ rpc' = [rpc EXCEPT ![r] = "done"]
  /\ UNCHANGED <<extractor, pipelineCalls, preload, body, normalized, load, model, getCalls,
                 modelCalls, thrown, jwVars>>

\* the model call (or cos_sim on its output) throws: the catch block
EmbedReject(r, message) ==
  /\ rpc[r] = "embedding"
  /\ thrown' = [thrown EXCEPT ![r] = message]
  /\ responses' = [responses EXCEPT ![r] = Append(@, InternalError(message))]
  /\ rpc' = [rpc EXCEPT ![r] = "done"]
  /\ UNCHANGED <<extractor, pipelineCalls, preload, body, normalized, load, model, getCalls,
                 modelCalls, jwVars>>

\* the messages of the errors the provider throws
LoadError == "model load failed"
EmbedError == "inference failed"

\* what the provider and the handler do once requests are in
Progress ==
  \/ PreloadStart
  \/ \E c \in Callers : PipelineResolve(c)
  \/ \E c \in Callers : PipelineReject(c, LoadError)
  \/ \E r \in Reqs : CallModel(r)
  \/ \E r \in Reqs, similarity \in CosValues : EmbedResolve(r, similarity)
  \/ \E r \in Reqs : EmbedReject(r, EmbedError)

\* one request, any answers and threshold, beside the preload
Next ==
  \/ /\ rpc["r1"] = "idle"
     /\ \E ua \in Answers, ca \in Answers, th \in Thresholds : Receive("r1", ua, ca, th)
  \/ Progress

Spec == Init /\ [][Next]_vars

\* the answers and similarities of the requests of SpecConcurrent
FewAnswers == {Text(<<"a">>), Text(<<"A">>), Text(<<"a", "a">>)}
FewCosValues == {Zero, One}

\* every request, beside the preload and each other
NextConcurrent ==
  \/ \E r \in Reqs :
       /\ rpc[r] = "idle"
       /\ \E ua \in FewAnswers, ca \in FewAnswers : Receive(r, ua, ca, NoThreshold)
  \/ PreloadStart
  \/ \E c \in Callers : PipelineResolve(c)
  \/ \E c \in Callers : PipelineReject(c, LoadError)
  \/ \E r \in Reqs : CallModel(r)
  \/ \E r \in Reqs, similarity \in FewCosValues : EmbedResolve(r, similarity)
  \/ \E r \in Reqs : EmbedReject(r, EmbedError)

SpecConcurrent == Init /\ [][NextConcurrent]_vars

\* ---------------------------------------------------------------- properties of the server

\* the one response of a request that has ended
Response(r) == responses[r][1]

Ended(r) == rpc[r] = "done" /\ Len(responses[r]) = 1

\* a field of the body is absent, empty, or empty once trimmed
Blank(a) == ~a.present \/ Trim(a.text) = <<>>

\* the provider was reached for r: getExtractor or the model was called
ProviderReached(r) == getCalls[r] > 0 \/ modelCalls[r] > 0 \/ load[r] # 0 \/ model[r] # 0

\* a response is a verdict: it carries isCorrect, confidence or scores
Verdict(resp) == DOMAIN resp \cap {"isCorrect", "confidence", "scores"} # {}

\* C4. Missing input: a request whose userAnswer or correctAnswer is absent, empty, or
\* empty after trimming is rejected with the client-side error: it gets status 400 and no
\* verdict, and the provider is never reached for it.
MissingInputRejected ==
  \A r \in Reqs :
    (rpc[r] # "idle" /\ (Blank(body[r].userAnswer) \/ Blank(body[r].correctAnswer))) =>
      /\ Ended(r)
      /\ Response(r).status = 400
      /\ ~Verdict(Response(r))
      /\ ~ProviderReached(r)

\* the answers of r are both there, not empty, and equal after normalize() and lower-casing
EqualAnswers(r) ==
  /\ body[r].userAnswer.present
  /\ body[r].correctAnswer.present
  /\ body[r].userAnswer.text # <<>>
  /\ body[r].correctAnswer.text # <<>>
  /\ ToLowerCase(Normalize(body[r].userAnswer.text))
       = ToLowerCase(Normalize(body[r].correctAnswer.text))

\* C5. Exact-match shortcut: a received request whose two (non-empty) answers are equal
\* after normalize() and lower-casing has, whatever its threshold, the response isCorrect =
\* true, confidence = 1, scores exact = semantic = jaroWinkler = combined = 1, and neither
\* getExtractor nor the model is called for it.
ExactShortcut ==
  \A r \in Reqs :
    (rpc[r] # "idle" /\ EqualAnswers(r)) =>
      /\ Ended(r)
      /\ Response(r).status = 200
      /\ Response(r).isCorrect = TRUE
      /\ Response(r).confidence = One
      /\ DOMAIN Response(r).scores = {"exact", "semantic", "jaroWinkler", "combined"}
      /\ \A f \in DOMAIN Response(r).scores : Response(r).scores[f] = One
      /\ ~ProviderReached(r)

\* a request whose answers differ as strings, in case and in whitespace, took the shortcut
\* under an explicit threshold of 1
ExactShortcutWitness ==
  \E r \in Reqs :
    /\ rpc[r] = "done"
    /\ EqualAnswers(r)
    /\ Len(body[r].userAnswer.text) # Len(body[r].correctAnswer.text)
    /\ \E x \in 1..Len(body[r].userAnswer.text) : body[r].userAnswer.text[x] = "A"
    /\ \A x \in 1..Len(body[r].correctAnswer.text) : body[r].correctAnswer.text[x] # "A"
    /\ body[r].threshold = Threshold(One)
    /\ "exact" \in DOMAIN Response(r).scores

\* r has ended with a decision of the non-exact path
Scored(r) ==
  /\ Ended(r)
  /\ Response(r).status = 200
  /\ "exact" \notin DOMAIN Response(r).scores

\* C6. Combination and threshold: on the non-exact path combined and confidence both equal
\* semantic * 0.8 + jaroWinkler * 0.2, where jaroWinkler is the score of the lower-cased
\* normalized answers; the threshold applied (and returned) is the request's, 0.75 when it
\* gives none; and isCorrect is true if and only if combined >= threshold.
CombinationAndThreshold ==
  \A r \in Reqs :
    Scored(r) =>
      LET resp == Response(r)
          sc == resp.scores
          th == IF body[r].threshold.given THEN body[r].threshold.value ELSE Q(3, 4)
      IN  /\ sc.jaroWinkler = JaroWinkler(ToLowerCase(Normalize(body[r].userAnswer.text)),
                                          ToLowerCase(Normalize(body[r].correctAnswer.text))).score
          /\ sc.combined = RAdd(RMul(sc.semantic, Q(4, 5)), RMul(sc.jaroWinkler, Q(1, 5)))
          /\ resp.confidence = sc.combined
          /\ resp.threshold = th
          /\ resp.isCorrect <=> (sc.combined.n * th.d >= th.n * sc.combined.d)

\* a decision whose combined score is exactly the request's threshold, both answers
\* non-blank, and isCorrect true
CombinationWitness ==
  \E r \in Reqs :
    /\ Scored(r)
    /\ ~Blank(body[r].userAnswer)
    /\ ~Blank(body[r].correctAnswer)
    /\ body[r].threshold.given
    /\ Response(r).scores.combined = body[r].threshold.value
    /\ Response(r).isCorrect

InUnit(x) == x.d > 0 /\ 0 <= x.n /\ x.n <= x.d

\* C7, as claimed. Score range: in every decision returned, semantic, jaroWinkler, combined
\* and confidence lie in [0, 1], for every cosine in [-1, 1]; exact is present only on the
\* fast path, where all four fields equal 1.
ScoresInUnitInterval ==
  \A r \in Reqs :
    (Ended(r) /\ Response(r).status = 200) =>
      LET resp == Response(r)
          sc == resp.scores
      IN  /\ InUnit(sc.semantic)
          /\ InUnit(sc.jaroWinkler)
          /\ InUnit(sc.combined)
          /\ InUnit(resp.confidence)
          /\ "exact" \in DOMAIN sc => \A f \in DOMAIN sc : sc[f] = One

\* C7, amended. In every decision returned, jaroWinkler lies in [0, 1], semantic is the
\* cosine as returned, in [-1, 1], and combined = confidence lies in [-0.8, 1]; when the
\* cosine is in [0, 1], all of them lie in [0, 1]. exact is present only on the fast path,
\* where all four fields equal 1.
ScoresInRange ==
  \A r \in Reqs :
    (Ended(r) /\ Response(r).status = 200) =>
      LET resp == Response(r)
          sc == resp.scores
      IN  /\ InUnit(sc.jaroWinkler)
          /\ sc.semantic.d > 0
          /\ -sc.semantic.d <= sc.semantic.n
          /\ sc.semantic.n <= sc.semantic.d
          /\ sc.combined.d > 0
          /\ -4 * sc.combined.d <= 5 * sc.combined.n
          /\ sc.combined.n <= sc.combined.d
          /\ resp.confidence = sc.combined
          /\ InUnit(sc.semantic) => InUnit(sc.combined)
          /\ "exact" \in DOMAIN sc <=> ~ProviderReached(r)
          /\ "exact" \in DOMAIN sc => \A f \in DOMAIN sc : sc[f] = One

\* a decision with a negative cosine and a negative combined score
ScoresWitness ==
  \E r \in Reqs :
    /\ Scored(r)
    /\ Response(r).scores.semantic.n < 0
    /\ Response(r).scores.combined.n < 0
    /\ Response(r).scores.jaroWinkler.n > 0

\* a response is a full Decision
FullDecision(resp) ==
  /\ resp.status = 200
  /\ {"isCorrect", "confidence", "scores"} \subseteq DOMAIN resp
  /\ {"semantic", "jaroWinkler", "combined"} \subseteq DOMAIN resp.scores

\* a response is a failure: an error status and no verdict
Failure(resp) ==
  /\ resp.status \in {400, 500}
  /\ "error" \in DOMAIN resp
  /\ ~Verdict(resp)

\* C8. No partial results: a request never gets a second response, and has ended exactly
\* when it has got its one response, which is a full Decision or a failure. When the load of
\* the model or the embedding call has failed for it, that response is the internal failure
\* with the provider's message and no verdict; getExtractor and the model are called at most
\* once for a request (no retry), and the model is not called again after a failure.
NoPartialResults ==
  \A r \in Reqs :
    /\ Len(responses[r]) <= 1
    /\ (rpc[r] = "done") <=> (Len(responses[r]) = 1)
    /\ getCalls[r] <= 1
    /\ modelCalls[r] <= 1
    /\ \A x \in 1..Len(responses[r]) :
         FullDecision(responses[r][x]) \/ Failure(responses[r][x])
    /\ thrown[r] # "" =>
         /\ Ended(r)
         /\ Response(r) = [status |-> 500, error |-> "Internal server error",
                           message |-> thrown[r]]

\* a request whose embedding call failed after its model was loaded has ended
NoPartialResultsWitness ==
  \E r \in Reqs :
    /\ rpc[r] = "done"
    /\ thrown[r] = EmbedError
    /\ modelCalls[r] = 1
    /\ Response(r).status = 500

\* C9. Model loaded at most once: however the preload and the requests interleave,
\* pipeline() is invoked at most once in the process, and every caller of getExtractor
\* receives the same extractor.
LoadedOnce ==
  /\ pipelineCalls <= 1
  /\ \A c1 \in Callers, c2 \in Callers : (model[c1] # 0 /\ model[c2] # 0) => model[c1] = model[c2]

====
